---------------------------- MODULE Spec2Model ----------------------------
(***************************************************************************)
(* A model of src/lambda_function.py: the GroupMe -> Gemini -> Google      *)
(* Calendar relay.  One invocation of lambda_handler is a run of the       *)
(* program counter pc from "get_gemini_key" to "done"; the secret store,   *)
(* the AI endpoint, the token endpoint and the calendar endpoint answer    *)
(* each call with any outcome of a bounded set.                            *)
(***************************************************************************)
EXTENDS Integers, Sequences, FiniteSets, TLC

(***************************************************************************)
(* Python / JSON values.  None and JSON null are the same value.           *)
(* A str that the code takes apart character by character is a "text":     *)
(* a sequence of tokens, each a character or a whole JSON literal.         *)
(***************************************************************************)
JNull == [t |-> "null"]
JBool(b) == [t |-> "bool", b |-> b]
JNum(n) == [t |-> "num", n |-> n]
JStr(s) == [t |-> "str", s |-> s]
JText(cs) == [t |-> "text", cs |-> cs]
JArr(a) == [t |-> "arr", a |-> a]
JObj(d) == [t |-> "obj", d |-> d]
\* the content of an HTTP body that is not JSON at all
NotJson == [t |-> "notjson"]

\* bool(v) as Python computes it
Truthy(v) ==
    CASE v.t = "null" -> FALSE
      [] v.t = "bool" -> v.b
      [] v.t = "num" -> v.n # 0
      [] v.t = "str" -> v.s # ""
      [] v.t = "text" -> v.cs # <<>>
      [] v.t = "arr" -> v.a # <<>>
      [] v.t = "obj" -> DOMAIN v.d # {}
      [] OTHER -> TRUE

\* d.get(key, default) on a dict
DictGet(d, key, default) == IF key \in DOMAIN d THEN d[key] ELSE default

\* d[key] = value on a dict
DictSet(d, key, value) ==
    [k \in (DOMAIN d) \cup {key} |-> IF k = key THEN value ELSE d[k]]

\* results of a call: a value returned, or an exception raised
Ret(v) == [ok |-> TRUE, val |-> v]
Raise(cls, msg) == [ok |-> FALSE, cls |-> cls, msg |-> msg]

(***************************************************************************)
(* str.strip(), str.lstrip(chars), str.rstrip(chars) over token sequences  *)
(***************************************************************************)
Whitespace == {" ", "\n"}

\* how many leading (trailing) tokens of cs are in chars
LeadingIn(cs, chars) ==
    CHOOSE k \in 0..Len(cs) :
        /\ \A j \in 1..k : cs[j] \in chars
        /\ k = Len(cs) \/ cs[k + 1] \notin chars
TrailingIn(cs, chars) ==
    CHOOSE k \in 0..Len(cs) :
        /\ \A j \in 1..k : cs[Len(cs) + 1 - j] \in chars
        /\ k = Len(cs) \/ cs[Len(cs) - k] \notin chars

\* s.lstrip(chars), s.rstrip(chars): every leading (trailing) character that
\* is in chars is dropped.  (The singleton set binds cs to the value of s.)
LStripChars(s, chars) ==
    CHOOSE r \in {SubSeq(cs, LeadingIn(cs, chars) + 1, Len(cs)) : cs \in {s}} : TRUE
RStripChars(s, chars) ==
    CHOOSE r \in {SubSeq(cs, 1, Len(cs) - TrailingIn(cs, chars)) : cs \in {s}} : TRUE

Strip(cs) == RStripChars(LStripChars(cs, Whitespace), Whitespace)


(***************************************************************************)
(* Configuration (lambda_function.py lines 8-12)                           *)
(***************************************************************************)
S3_GEMINI_KEY_FILE == "gemini_api_key.txt"
S3_GOOGLE_CREDS_FILE == "google_creds.json"
S3_CALENDAR_ID_FILE == "calendar_id.txt"
TIMEZONE == "America/New_York"

(***************************************************************************)
(* JSON literals that occur as one token of a text, and json.loads         *)
(***************************************************************************)
FLAT_CREDS ==
    [client_id |-> JStr("cid"), client_secret |-> JStr("csec"),
     refresh_token |-> JStr("rtok")]

EVENT_FULL ==
    [event_found |-> JBool(TRUE), title |-> JStr("Pickup game"),
     date |-> JStr("2025-11-07"), time |-> JStr("18:00"),
     location |-> JStr("Field 2"), description |-> JStr("Bring cleats")]

\* what each literal token denotes
Literal ==
    [ CREDS_FLAT |-> JObj(FLAT_CREDS),
      CREDS_INSTALLED |-> JObj([installed |-> JObj(FLAT_CREDS)]),
      CREDS_WEB |-> JObj([web |-> JObj(FLAT_CREDS)]),
      CREDS_NO_REFRESH |->
          JObj([client_id |-> JStr("cid"), client_secret |-> JStr("csec")]),
      CREDS_WEB_EMPTY_SECRET |->
          JObj([web |-> JObj([FLAT_CREDS EXCEPT !.client_secret = JStr("")])]),
      CREDS_ARRAY |-> JArr(<<JStr("cid")>>),
      MSG_USER |->
          JObj([sender_type |-> JStr("user"), text |-> JStr("Pickup game Friday at 6"),
                group_name |-> JStr("FC Test")]),
      MSG_BARE |-> JObj([text |-> JStr("lol nice")]),
      MSG_BOT |-> JObj([sender_type |-> JStr("bot"), text |-> JStr("beep")]),
      MSG_NULL_TEXT |-> JObj([sender_type |-> JStr("user"), text |-> JNull]),
      MSG_ARRAY |-> JArr(<<>>),
      EV_FULL |-> JObj(EVENT_FULL),
      EV_LATE |-> JObj([EVENT_FULL EXCEPT !.time = JStr("23:30")]),
      EV_NULL_DATE |-> JObj([EVENT_FULL EXCEPT !.date = JNull]),
      EV_BAD_TIME |-> JObj([EVENT_FULL EXCEPT !.time = JStr("6pm")]),
      EV_NO_DATE_KEY |->
          JObj([event_found |-> JBool(TRUE), title |-> JStr("Pickup game"),
                time |-> JStr("18:00"), location |-> JStr("Field 2"),
                description |-> JStr("Bring cleats")]),
      EV_NO_TITLE_KEY |->
          JObj([event_found |-> JBool(TRUE), date |-> JStr("2025-11-07"),
                time |-> JStr("18:00"), location |-> JStr("Field 2"),
                description |-> JStr("Bring cleats")]),
      EV_NOT_FOUND |-> JObj([event_found |-> JBool(FALSE)]),
      EV_NO_FLAG |-> JObj([title |-> JStr("maybe")]),
      ARRAY |-> JArr(<<>>),
      NUMBER |-> JNum(7) ]

\* the four characters of the JSON literal null
NULL_CHARS == <<"n", "u", "l", "l">>

\* json.loads(s) for a str s: leading and trailing whitespace is skipped, the
\* rest must be exactly one JSON value
json_loads(cs) ==
    LET body == Strip(cs) IN
    IF Len(body) = 1 /\ body[1] \in DOMAIN Literal THEN Ret(Literal[body[1]])
    ELSE IF body = NULL_CHARS THEN Ret(JNull)
    ELSE Raise("JSONDecodeError", "Expecting value")

(***************************************************************************)
(* The secret store (S3) and get_secret                                    *)
(***************************************************************************)
\* an outcome of s3.get_object(...)['Body'].read().decode('utf-8')
S3Error == [raises |-> TRUE, content |-> <<>>]
S3Content(cs) == [raises |-> FALSE, content |-> cs]

\* get_secret without the check of line 26
get_secret_unchecked(out) ==
    IF out.raises THEN JNull ELSE JText(out.content)

\* get_secret(file_key), given the store's outcome: the stripped content, or
\* None on any error or on empty content
get_secret(out) ==
    IF out.raises THEN JNull
    ELSE LET secret == Strip(out.content) IN
         IF secret = <<>> THEN JNull ELSE JText(secret)

\* what the store may hold under each key
StoreOutcomes(file_key) ==
    {S3Error, S3Content(<<>>), S3Content(<<" ", "\n">>)} \cup
    ( CASE file_key = S3_GEMINI_KEY_FILE ->
               {S3Content(<<"AIzaKey", "\n">>)}
        [] file_key = S3_GOOGLE_CREDS_FILE ->
               {S3Content(<<lit, "\n">>) :
                    lit \in {"CREDS_FLAT", "CREDS_INSTALLED", "CREDS_WEB",
                             "CREDS_NO_REFRESH", "CREDS_WEB_EMPTY_SECRET",
                             "CREDS_ARRAY"}}
               \cup {S3Content(<<"{", "client_id">>)}
        [] OTHER ->
               {S3Content(<<"primary">>)} )

(***************************************************************************)
(* HTTP: an outcome of requests.post(...) is an exception raised by the    *)
(* transport, or a response with a status and a body                       *)
(***************************************************************************)
HttpRaises(cls) == [raises |-> cls, status |-> 0, body |-> NotJson]
HttpResponse(status, body) == [raises |-> "none", status |-> status, body |-> body]

\* response.raise_for_status() raises HTTPError for 4xx and 5xx
RaisesForStatus(status) == status >= 400 /\ status < 600

\* the classes the handler's first except clause catches
RequestExceptions ==
    {"Timeout", "ConnectionError", "HTTPError", "RequestsJSONDecodeError"}

\* obj[key] and obj[i] on the result of the previous subscript
Item(r, key) ==
    IF ~r.ok THEN r
    ELSE IF r.val.t = "obj"
         THEN IF key \in DOMAIN r.val.d THEN Ret(r.val.d[key])
              ELSE Raise("KeyError", "'" \o key \o "'")
         ELSE Raise("TypeError", "not subscriptable by str")

\* v[key] on a dict and v[i] on a list succeed
HasItem(v, key) == v.t = "obj" /\ key \in DOMAIN v.d
HasElem(v, i) == v.t = "arr" /\ i < Len(v.a)

\* line 83: gemini_output["candidates"][0]["content"]["parts"][0]["text"];
\* a subscript that fails raises KeyError, IndexError or TypeError
FirstText(gemini_output) ==
    LET candidates == gemini_output.d["candidates"]
        candidate == candidates.a[1]
        content == candidate.d["content"]
        parts == content.d["parts"]
        part == parts.a[1]
    IN  IF /\ HasItem(gemini_output, "candidates")
           /\ HasElem(candidates, 0)
           /\ HasItem(candidate, "content")
           /\ HasItem(content, "parts")
           /\ HasElem(parts, 0)
           /\ HasItem(part, "text")
        THEN Ret(part.d["text"])
        ELSE Raise("LookupError", "candidates[0].content.parts[0].text")

(***************************************************************************)
(* extract_event_data (lines 35-96)                                        *)
(***************************************************************************)
NO_EVENT == JObj([event_found |-> JBool(FALSE)])

\* the token that stands for the backtick character (U+0060)
BACKTICK == "BACKTICK"

\* str.lstrip and str.rstrip take a set of characters, not a prefix: line 86
\* strips the characters of the opening fence (three backticks and "json")
\* from the left and backticks from the right
FenceOpenChars == {BACKTICK, "j", "s", "o", "n"}
FenceCloseChars == {BACKTICK}

\* line 86: json_text_raw.strip().lstrip(<fence>json).rstrip(<fence>)
StripFence(cs) ==
    RStripChars(LStripChars(Strip(cs), FenceOpenChars), FenceCloseChars)

\* lines 81-96, given the HTTP response's body.  When the body is not JSON,
\* response.json() (line 82) raises.  requests raises its JSONDecodeError,
\* which derives from json.JSONDecodeError unless the build has simplejson
\* installed (then it derives from simplejson's error, a ValueError).  Without
\* simplejson the clause of line 90 catches it and line 92 reads
\* json_text_raw, which line 83 has not assigned: an UnboundLocalError leaves
\* the function.  With simplejson the clause of line 94 catches it.
ParseGemini(body, simplejson) ==
    IF body = NotJson
    THEN IF simplejson THEN Ret(NO_EVENT)
         ELSE Raise("UnboundLocalError", "json_text_raw referenced before assignment")
    ELSE IF ~FirstText(body).ok THEN Ret(NO_EVENT)
    ELSE IF FirstText(body).val.t # "text" THEN Ret(NO_EVENT)
    ELSE IF json_loads(StripFence(FirstText(body).val.cs)).ok
         THEN json_loads(StripFence(FirstText(body).val.cs))
         ELSE Ret(NO_EVENT)

\* extract_event_data(api_key, raw_text), given the outcome of its POST
extract_event_data(api_key, out, simplejson) ==
    IF ~Truthy(api_key) THEN Ret(NO_EVENT)
    ELSE IF out.raises # "none" THEN Ret(NO_EVENT)
    ELSE IF RaisesForStatus(out.status) THEN Ret(NO_EVENT)
    ELSE ParseGemini(out.body, simplejson)

(***************************************************************************)
(* refresh_access_token (lines 100-125)                                    *)
(***************************************************************************)
\* lines 104-107: "installed" in creds / creds["installed"]
Unwrap(creds) ==
    CASE creds.t = "obj" ->
             IF "installed" \in DOMAIN creds.d THEN Ret(creds.d["installed"])
             ELSE IF "web" \in DOMAIN creds.d THEN Ret(creds.d["web"])
             ELSE Ret(creds)
      [] creds.t = "arr" ->
             IF \E i \in 1..Len(creds.a) : creds.a[i] \in {JStr("installed"), JStr("web")}
             THEN Raise("TypeError", "list indices must be integers")
             ELSE Ret(creds)
      [] OTHER -> Raise("TypeError", "argument is not iterable")

\* lines 110-115: the form fields, or the AttributeError of .get on a non-dict
TokenData(creds) ==
    LET u == Unwrap(creds) IN
    IF ~u.ok THEN u
    ELSE IF u.val.t # "obj" THEN Raise("AttributeError", "object has no attribute 'get'")
    ELSE Ret([client_id |-> DictGet(u.val.d, "client_id", JNull),
              client_secret |-> DictGet(u.val.d, "client_secret", JNull),
              refresh_token |-> DictGet(u.val.d, "refresh_token", JNull),
              grant_type |-> JStr("refresh_token")])

\* line 117: all three fields present and non-empty
HasAllFields(token_data) ==
    /\ Truthy(token_data.client_id)
    /\ Truthy(token_data.client_secret)
    /\ Truthy(token_data.refresh_token)

\* whether refresh_access_token(creds) reaches its POST (line 121)
RefreshPosts(creds) ==
    LET td == TokenData(creds) IN td.ok /\ HasAllFields(td.val)

\* refresh_access_token(creds), given the outcome of its POST if it makes one
refresh_access_token(creds, out) ==
    LET td == TokenData(creds) IN
    IF ~td.ok THEN td
    ELSE IF ~HasAllFields(td.val) THEN Ret(JNull)
    ELSE IF out.raises # "none" THEN Raise(out.raises, "token endpoint unreachable")
    ELSE IF RaisesForStatus(out.status) THEN Raise("HTTPError", "token endpoint error status")
    ELSE IF out.body = NotJson THEN Raise("RequestsJSONDecodeError", "Expecting value")
    ELSE IF out.body.t # "obj" THEN Raise("AttributeError", "object has no attribute 'get'")
    ELSE Item(Ret(out.body), "access_token")

(***************************************************************************)
(* create_google_event (lines 129-152)                                     *)
(***************************************************************************)
\* datetime.strptime against '%Y-%m-%d' and '%H:%M', on the strings the
\* model uses: the dates and clock times that parse, and what they denote
NextDay == [d \in {"2025-11-07"} |-> "2025-11-08"]
ClockMinutes == [c \in {"18:00", "23:30"} |-> IF c = "18:00" THEN 18 * 60 ELSE 23 * 60 + 30]

\* str(v) inside the f-string of line 132
FormatValue(v) == IF v.t = "str" THEN v.s ELSE "None"

\* lines 131-134: start_dt, or the exception the try block catches
StartOf(event_data) ==
    LET date == Item(Ret(JObj(event_data)), "date")
        time == Item(Ret(JObj(event_data)), "time")
    IN  IF ~date.ok THEN date
        ELSE IF ~time.ok THEN time
        ELSE IF /\ FormatValue(date.val) \in DOMAIN NextDay
                /\ FormatValue(time.val) \in DOMAIN ClockMinutes
             THEN Ret([date |-> FormatValue(date.val),
                       minute |-> ClockMinutes[FormatValue(time.val)]])
             ELSE Raise("ValueError", "time data does not match format")

\* start_dt + timedelta(hours=1)
PlusOneHour(dt) ==
    IF dt.minute + 60 < 24 * 60 THEN [dt EXCEPT !.minute = dt.minute + 60]
    ELSE [date |-> NextDay[dt.date], minute |-> dt.minute + 60 - 24 * 60]

INVALID_DATE_TIME ==
    JObj([status |-> JStr("error"), message |-> JStr("Invalid date/time")])

\* lines 139-145: the event body, or the KeyError of a missing field
EventBody(event_data) ==
    LET e == Ret(JObj(event_data))
        start == StartOf(event_data)
        title == Item(e, "title")
        location == Item(e, "location")
        group == Item(e, "group_context")
        description == Item(e, "description")
    IN  IF ~title.ok THEN title
        ELSE IF ~location.ok THEN location
        ELSE IF ~group.ok THEN group
        ELSE IF ~description.ok THEN description
        ELSE Ret([summary |-> title.val, location |-> location.val,
                  description |-> [group |-> group.val, details |-> description.val],
                  start |-> [dateTime |-> start.val, timeZone |-> TIMEZONE],
                  end |-> [dateTime |-> PlusOneHour(start.val), timeZone |-> TIMEZONE]])

\* whether create_google_event reaches its POST (line 150)
CreatePosts(event_data) == StartOf(event_data).ok /\ EventBody(event_data).ok

\* create_google_event(access_token, calendar_id, event_data), given the
\* outcome of its POST if it makes one
create_google_event(access_token, calendar_id, event_data, out) ==
    IF ~StartOf(event_data).ok THEN Ret(INVALID_DATE_TIME)
    ELSE IF ~EventBody(event_data).ok THEN EventBody(event_data)
    ELSE IF out.raises # "none" THEN Raise(out.raises, "calendar endpoint unreachable")
    ELSE IF RaisesForStatus(out.status) THEN Raise("HTTPError", "calendar endpoint error status")
    ELSE IF out.body = NotJson THEN Raise("RequestsJSONDecodeError", "Expecting value")
    ELSE Ret(out.body)

(***************************************************************************)
(* What the services may answer                                            *)
(***************************************************************************)
GeminiEnvelope(text) ==
    JObj([candidates |->
        JArr(<<JObj([content |-> JObj([parts |-> JArr(<<JObj([text |-> text])>>)])])>>)])

FenceOpen == <<BACKTICK, BACKTICK, BACKTICK, "j", "s", "o", "n", "\n">>
FenceClose == <<"\n", BACKTICK, BACKTICK, BACKTICK>>
Fenced(cs) == FenceOpen \o cs \o FenceClose

AiTexts ==
    {<<lit>> : lit \in {"EV_FULL", "EV_LATE", "EV_NULL_DATE", "EV_BAD_TIME",
                        "EV_NO_DATE_KEY", "EV_NO_TITLE_KEY", "EV_NOT_FOUND",
                        "EV_NO_FLAG", "ARRAY", "NUMBER"}}
    \cup {Fenced(<<"EV_FULL">>), Fenced(<<"EV_NOT_FOUND">>), Fenced(NULL_CHARS),
          NULL_CHARS, <<" ", "EV_FULL", "\n">>,
          <<"Here is the event:", "\n", "EV_FULL">>}

AiOutcomes ==
    {HttpRaises("Timeout"), HttpRaises("ConnectionError"),
     HttpResponse(429, NotJson), HttpResponse(503, JObj([error |-> JStr("unavailable")])),
     HttpResponse(200, NotJson),
     HttpResponse(200, JObj([promptFeedback |-> JStr("blocked")])),
     HttpResponse(200, JObj([candidates |-> JArr(<<>>)])),
     HttpResponse(200, GeminiEnvelope(JNull))}
    \cup {HttpResponse(200, GeminiEnvelope(JText(cs))) : cs \in AiTexts}

TokenOutcomes ==
    {HttpRaises("ConnectionError"),
     HttpResponse(401, JObj([error |-> JStr("invalid_grant")])),
     HttpResponse(200, NotJson),
     HttpResponse(200, JObj([access_token |-> JStr("ya29.token"), expires_in |-> JNum(3599)])),
     HttpResponse(200, JObj([access_token |-> JStr("")])),
     HttpResponse(200, JObj([expires_in |-> JNum(3599)])),
     HttpResponse(200, JArr(<<>>))}

CalendarOutcomes ==
    {HttpRaises("ConnectionError"),
     HttpResponse(403, JObj([error |-> JStr("forbidden")])),
     HttpResponse(200, NotJson),
     HttpResponse(200, JObj([htmlLink |-> JStr("https://calendar/event/1"), id |-> JStr("1")])),
     HttpResponse(200, JObj([id |-> JStr("1")])),
     HttpResponse(200, JArr(<<>>))}

\* the inbound events: API-gateway events with a "body", a test event
\* without one, and one whose body is null
Events ==
    {JObj([body |-> JText(cs)]) :
        cs \in {<<"MSG_USER">>, <<"MSG_BARE">>, <<"MSG_BOT">>, <<"MSG_NULL_TEXT">>,
                <<"MSG_ARRAY">>, <<"text=hello">>}}
    \cup {JObj([text |-> JStr("hello")]), JObj([body |-> JNull])}

\* datetime.now().strftime('%Y-%m-%d') of line 47
Today == {"2025-11-05", "2025-11-06"}

(***************************************************************************)
(* lambda_handler (lines 156-208) as a state machine                       *)
(***************************************************************************)
\* how many times the same inbound event and the same answers are replayed
MaxReplays == 1

VARIABLES
    has_simplejson,     \* the build: whether requests imports simplejson
    pc,                 \* where the handler is
    event,              \* the inbound event of this invocation
    gemini_key, google_creds_json, calendar_id,     \* line 159-161
    google_creds,       \* line 169
    raw_text, group_name,                           \* line 176-177
    event_data,         \* line 182-183
    access_token,       \* line 189
    calendar_response,  \* line 193
    response,           \* what the handler returned
    escaped,            \* the exception that left the handler, if one did
    calls,              \* the external calls of this invocation, in order
    prev,               \* a replay: the calls and the result of the run before
    replays,            \* how many times this event has been replayed
    message_text, api_key,  \* P2.3 app.py line 28 (or 33), line 36
    printed             \* P2.3 app.py: what the AI step (lines 60-86) logged

vars == <<has_simplejson, pc, event, gemini_key, google_creds_json, calendar_id,
          google_creds, raw_text, group_name, event_data, access_token,
          calendar_response, response, escaped, calls, prev, replays,
          message_text, api_key, printed>>

\* a local not assigned yet; no response; no exception
Unset == [t |-> "unset"]
NoPrev == [t |-> "none"]

\* json.dumps(v) as the body, and a plain str as the body (line 174)
Dumps(v) == [json |-> v]
RawBody(s) == [raw |-> s]

\* a step of the handler ends in a return, in an exception, or goes on
Return(statusCode, body) ==
    [kind |-> "return", response |-> [statusCode |-> statusCode, body |-> body]]
Throw(exc) == [kind |-> "raise", exc |-> exc]

\* a handler whose last clause is missing: only request errors are caught
CatchRequestOnly(exc) ==
    IF exc.cls \in RequestExceptions
    THEN Return(500, Dumps(JStr("API Call Error: " \o exc.msg)))
    ELSE Throw(exc)

\* lines 203-208: both except clauses return a 500; every exception of the
\* model is an Exception
Catch(exc) ==
    IF exc.cls \in RequestExceptions
    THEN Return(500, Dumps(JStr("API Call Error: " \o exc.msg)))
    ELSE Return(500, Dumps(JStr("Unexpected Error: " \o exc.msg)))

MISSING_SECRETS == Return(500, Dumps(JStr("Missing secrets.")))
IGNORED_BOT == Return(200, RawBody("Ignored bot message"))
NO_EVENT_FOUND == Return(200, Dumps(JObj([status |-> JStr("No event found.")])))
REFRESH_FAILED == Return(500, Dumps(JStr("Failed to refresh Google access token.")))
\* a handler that remembers, from one invocation to the next, what it created
EventCreatedOnce(link) ==
    IF replays > 0
    THEN Return(200, Dumps(JObj([status |-> JStr("Event already created.")])))
    ELSE Return(200, Dumps(JObj([status |-> JStr("Event created."), link |-> link])))

\* lines 195-198
EventCreated(link) ==
    Return(200, Dumps(JObj([status |-> JStr("Event created."), link |-> link])))

Init ==
    /\ has_simplejson \in BOOLEAN
    /\ pc = "idle"
    /\ event = Unset
    /\ gemini_key = Unset /\ google_creds_json = Unset /\ calendar_id = Unset
    /\ google_creds = Unset
    /\ raw_text = Unset /\ group_name = Unset
    /\ event_data = Unset
    /\ access_token = Unset
    /\ calendar_response = Unset
    /\ response = Unset
    /\ escaped = Unset
    /\ calls = <<>>
    /\ prev = NoPrev
    /\ replays = 0
    /\ message_text = Unset /\ api_key = Unset /\ printed = Unset

\* entering lambda_handler: fresh locals, nothing returned, nothing called
Enter ==
    /\ pc' = "get_gemini_key"
    /\ gemini_key' = Unset /\ google_creds_json' = Unset /\ calendar_id' = Unset
    /\ google_creds' = Unset
    /\ raw_text' = Unset /\ group_name' = Unset
    /\ event_data' = Unset
    /\ access_token' = Unset
    /\ calendar_response' = Unset
    /\ response' = Unset
    /\ escaped' = Unset
    /\ calls' = <<>>
    /\ UNCHANGED <<has_simplejson, message_text, api_key, printed>>

\* the runtime invokes the handler with a new event
Invoke ==
    /\ pc \in {"idle", "done"}
    /\ \E ev \in Events : event' = ev
    /\ prev' = NoPrev
    /\ replays' = 0
    /\ Enter

\* the runtime invokes the handler again with the same event, and the
\* services will answer as they did
Replay ==
    /\ pc = "done"
    /\ replays < MaxReplays
    /\ prev' = [calls |-> calls, response |-> response, escaped |-> escaped]
    /\ replays' = replays + 1
    /\ UNCHANGED event
    /\ Enter

\* the answers a service may give to the next call: any of its outcomes, or
\* in a replay the answer it gave to the same call of the run before
Answers(svc, outcomes) ==
    LET k == Len(calls) + 1 IN
    IF prev # NoPrev /\ k <= Len(prev.calls) /\ prev.calls[k].svc = svc
    THEN {prev.calls[k].resp}
    ELSE outcomes

\* the handler's step ends the invocation
Finish(outcome) ==
    /\ pc' = "done"
    /\ response' = IF outcome.kind = "return" THEN outcome.response ELSE Unset
    /\ escaped' = IF outcome.kind = "raise" THEN outcome.exc ELSE Unset

\* lines 159-161: one get_secret call
LoadSecret ==
    /\ pc \in {"get_gemini_key", "get_google_creds", "get_calendar_id"}
    /\ LET file_key == CASE pc = "get_gemini_key" -> S3_GEMINI_KEY_FILE
                         [] pc = "get_google_creds" -> S3_GOOGLE_CREDS_FILE
                         [] OTHER -> S3_CALENDAR_ID_FILE
       IN  \E out \in Answers("s3", StoreOutcomes(file_key)) :
             /\ calls' = Append(calls, [svc |-> "s3", req |-> JStr(file_key), resp |-> out])
             /\ gemini_key' = IF pc = "get_gemini_key" THEN get_secret(out) ELSE gemini_key
             /\ google_creds_json' =
                    IF pc = "get_google_creds" THEN get_secret(out) ELSE google_creds_json
             /\ calendar_id' = IF pc = "get_calendar_id" THEN get_secret(out) ELSE calendar_id
    /\ pc' = CASE pc = "get_gemini_key" -> "get_google_creds"
               [] pc = "get_google_creds" -> "get_calendar_id"
               [] OTHER -> "parse"
    /\ UNCHANGED <<message_text, api_key, printed, has_simplejson, event, google_creds, raw_text, group_name, event_data,
                   access_token, calendar_response, response, escaped, prev, replays>>

Continue(values) == [kind |-> "continue", values |-> values]

\* line 165: all([gemini_key, google_creds_json, calendar_id])
AllSecrets == Truthy(gemini_key) /\ Truthy(google_creds_json) /\ Truthy(calendar_id)

\* raw_text[:100] of line 179 needs a value that can be sliced
Sliceable(v) == v.t \in {"str", "text", "arr"}

\* line 173: groupme_payload.get("sender_type") == "bot"
IsBotMessageNever(groupme_payload) == FALSE

IsBotMessage(groupme_payload) ==
    DictGet(groupme_payload, "sender_type", JNull) = JStr("bot")

\* lines 165-179: the secrets check, the credential JSON, the inbound message
ParseOutcome ==
    IF ~AllSecrets THEN MISSING_SECRETS
    ELSE LET creds == json_loads(google_creds_json.cs) IN
    IF ~creds.ok THEN Catch(creds)
    ELSE LET body == Item(Ret(event), "body") IN
    IF ~body.ok THEN Catch(body)
    ELSE IF body.val.t # "text"
         THEN Catch(Raise("TypeError", "the JSON object must be str, bytes or bytearray"))
    ELSE LET groupme_payload == json_loads(body.val.cs) IN
    IF ~groupme_payload.ok THEN Catch(groupme_payload)
    ELSE IF groupme_payload.val.t # "obj"
         THEN Catch(Raise("AttributeError", "object has no attribute 'get'"))
    ELSE IF IsBotMessage(groupme_payload.val.d) THEN IGNORED_BOT
    ELSE LET text == DictGet(groupme_payload.val.d, "text", JStr("")) IN
    IF ~Sliceable(text) THEN Catch(Raise("TypeError", "object is not subscriptable"))
    ELSE Continue([google_creds |-> creds.val, raw_text |-> text,
                   group_name |-> DictGet(groupme_payload.val.d, "group_name",
                                          JStr("Unknown Group"))])

ParseMessage ==
    /\ pc = "parse"
    /\ LET o == ParseOutcome IN
       IF o.kind = "continue"
       THEN /\ google_creds' = o.values.google_creds
            /\ raw_text' = o.values.raw_text
            /\ group_name' = o.values.group_name
            /\ pc' = "extract"
            /\ UNCHANGED <<response, escaped>>
       ELSE /\ Finish(o)
            /\ google_creds' = IF AllSecrets /\ json_loads(google_creds_json.cs).ok
                               THEN json_loads(google_creds_json.cs).val ELSE google_creds
            /\ UNCHANGED <<raw_text, group_name>>
    /\ UNCHANGED <<message_text, api_key, printed, has_simplejson, event, gemini_key, google_creds_json, calendar_id,
                   event_data, access_token, calendar_response, calls, prev, replays>>

\* the handler without the branch of line 187
ExtractOutcomeAlways(r) ==
    IF ~r.ok THEN Catch(r)
    ELSE IF r.val.t # "obj"
         THEN Catch(Raise("TypeError", "object does not support item assignment"))
    ELSE Continue([event_data |-> DictSet(r.val.d, "group_context", group_name)])

\* lines 182-201 up to the branch on event_found, given what
\* extract_event_data returned or raised
ExtractOutcome(r) ==
    IF ~r.ok THEN Catch(r)
    ELSE IF r.val.t # "obj"
         THEN Catch(Raise("TypeError", "object does not support item assignment"))
    ELSE LET data == DictSet(r.val.d, "group_context", group_name) IN
         IF Truthy(DictGet(data, "event_found", JNull))
         THEN Continue([event_data |-> data])
         ELSE NO_EVENT_FOUND

\* line 182: the AI call, and the branch of line 187
ExtractEvent ==
    /\ pc = "extract"
    /\ \E out \in Answers("gemini", AiOutcomes), today \in Today :
         LET r == extract_event_data(gemini_key, out, has_simplejson)
             o == ExtractOutcome(r)
         IN  /\ calls' = Append(calls, [svc |-> "gemini",
                                        req |-> [text |-> raw_text, today |-> today],
                                        resp |-> out])
             /\ event_data' = IF r.ok /\ r.val.t = "obj"
                              THEN JObj(DictSet(r.val.d, "group_context", group_name))
                              ELSE IF r.ok THEN r.val ELSE event_data
             /\ IF o.kind = "continue"
                THEN pc' = "refresh" /\ UNCHANGED <<response, escaped>>
                ELSE Finish(o)
    /\ UNCHANGED <<message_text, api_key, printed, has_simplejson, event, gemini_key, google_creds_json, calendar_id,
                   google_creds, raw_text, group_name, access_token, calendar_response,
                   prev, replays>>

\* no call was made
NoCall == HttpRaises("no call")

\* the handler without the check of line 190
RefreshOutcomeUnchecked(r) ==
    IF ~r.ok THEN Catch(r) ELSE Continue([access_token |-> r.val])

\* lines 189-191, given what refresh_access_token returned or raised
RefreshOutcome(r) ==
    IF ~r.ok THEN Catch(r)
    ELSE IF ~Truthy(r.val) THEN REFRESH_FAILED
    ELSE Continue([access_token |-> r.val])

\* line 189: refresh_access_token, with its POST if it makes one
RefreshToken ==
    /\ pc = "refresh"
    /\ \E out \in (IF RefreshPosts(google_creds)
                   THEN Answers("token", TokenOutcomes) ELSE {NoCall}) :
         LET r == refresh_access_token(google_creds, out)
             o == RefreshOutcome(r)
         IN  /\ calls' = IF RefreshPosts(google_creds)
                         THEN Append(calls, [svc |-> "token",
                                             req |-> TokenData(google_creds).val,
                                             resp |-> out])
                         ELSE calls
             /\ IF o.kind = "continue"
                THEN /\ access_token' = o.values.access_token
                     /\ pc' = "create"
                     /\ UNCHANGED <<response, escaped>>
                ELSE Finish(o) /\ UNCHANGED access_token
    /\ UNCHANGED <<message_text, api_key, printed, has_simplejson, event, gemini_key, google_creds_json, calendar_id,
                   google_creds, raw_text, group_name, event_data, calendar_response,
                   prev, replays>>

\* lines 193-198, given what create_google_event returned or raised
CreateOutcome(r) ==
    IF ~r.ok THEN Catch(r)
    ELSE IF r.val.t # "obj" THEN Catch(Raise("AttributeError", "object has no attribute 'get'"))
    ELSE EventCreated(DictGet(r.val.d, "htmlLink", JNull))

\* line 193: create_google_event, with its POST if it makes one
CreateEvent ==
    /\ pc = "create"
    /\ \E out \in (IF CreatePosts(event_data.d)
                   THEN Answers("calendar", CalendarOutcomes) ELSE {NoCall}) :
         LET r == create_google_event(access_token, calendar_id, event_data.d, out)
         IN  /\ calls' = IF CreatePosts(event_data.d)
                         THEN Append(calls, [svc |-> "calendar",
                                             req |-> [token |-> access_token,
                                                      calendar |-> calendar_id,
                                                      body |-> EventBody(event_data.d).val],
                                             resp |-> out])
                         ELSE calls
             /\ calendar_response' = IF r.ok THEN r.val ELSE calendar_response
             /\ Finish(CreateOutcome(r))
    /\ UNCHANGED <<message_text, api_key, printed, has_simplejson, event, gemini_key, google_creds_json, calendar_id,
                   google_creds, raw_text, group_name, event_data, access_token,
                   prev, replays>>

\* one step of the handler
Step == LoadSecret \/ ParseMessage \/ ExtractEvent \/ RefreshToken \/ CreateEvent

Next == Invoke \/ Replay \/ LoadSecret \/ ParseMessage \/ ExtractEvent \/ RefreshToken \/ CreateEvent

Spec == Init /\ [][Next]_vars

\* the runtime runs the handler's code: a step that can be taken is taken
FairSpec == Spec /\ WF_vars(Step)

(***************************************************************************)
(* The P2.3 variant: src/Julio/P2.3backend_ai_lamba/app.py.  Its            *)
(* lambda_handler reads the message, loads the AI key, calls the AI         *)
(* endpoint and logs what it found; it creates no calendar event.           *)
(***************************************************************************)
\* line 33: the text the handler falls back to when the message is unreadable
FALLBACK_TEXT == JStr("Test: Soccer Club meeting Friday 6PM in the gym")

\* line 27: json.loads(event["body"]) if "body" in event else event
MessageData(ev) ==
    CASE ev.t = "obj" ->
             IF "body" \in DOMAIN ev.d
             THEN IF ev.d["body"].t = "text" THEN json_loads(ev.d["body"].cs)
                  ELSE Raise("TypeError", "the JSON object must be str, bytes or bytearray")
             ELSE Ret(ev)
      [] ev.t = "arr" ->
             IF \E i \in 1..Len(ev.a) : ev.a[i] = JStr("body")
             THEN Raise("TypeError", "list indices must be integers")
             ELSE Ret(ev)
      [] OTHER -> Raise("TypeError", "argument is not iterable")

\* lines 26-33: the message text, or the fallback on any exception of the
\* parse (a body that is not JSON, data that has no .get)
read_message(ev) ==
    LET data == MessageData(ev) IN
    IF ~data.ok THEN FALLBACK_TEXT
    ELSE IF data.val.t # "obj" THEN FALLBACK_TEXT
    ELSE DictGet(data.val.d, "text", JStr(""))

\* lines 15-20: the stripped content of the key file; an error of
\* s3.get_object is not caught and nothing checks that the key is not empty
get_gemini_api_key(out) ==
    IF out.raises THEN Raise("ClientError", "s3.get_object failed")
    ELSE Ret(JText(Strip(out.content)))

\* what the AI step logged: an event, no event, output that is not JSON
\* (line 80), an API error status (line 83), a failed request (line 86)
Logged(what, data) == [printed |-> what, event_data |-> data]

\* lines 60-86, given the outcome of the POST.  Only status 200 is read; the
\* text is parsed as it is (no fence is stripped); the inner clause catches
\* json.JSONDecodeError only, the outer one every Exception: the TypeError of
\* json.loads on a text that is not a str and the AttributeError of .get on
\* parsed JSON that is not an object included.
call_gemini(out, data_before) ==
    IF out.raises # "none" THEN Logged("request failed", data_before)
    ELSE IF out.status # 200 THEN Logged("api error", data_before)
    ELSE IF out.body = NotJson THEN Logged("request failed", data_before)
    ELSE IF ~FirstText(out.body).ok THEN Logged("request failed", data_before)
    ELSE IF FirstText(out.body).val.t # "text" THEN Logged("request failed", data_before)
    ELSE LET parsed == json_loads(FirstText(out.body).val.cs) IN
         IF ~parsed.ok THEN Logged("not valid JSON", data_before)
         ELSE IF parsed.val.t # "obj" THEN Logged("request failed", parsed.val)
         ELSE IF Truthy(DictGet(parsed.val.d, "event_found", JNull))
              THEN Logged("event detected", parsed.val)
              ELSE Logged("no event detected", parsed.val)

\* lines 89-92
Received(text) == Return(200, Dumps(JObj([received |-> text])))

\* the inbound events of the P2.3 handler: those of the final handler, and
\* invocations whose event is no dict
P23Events == Events \cup {JNull, JArr(<<JStr("body")>>), JArr(<<>>)}

\* what the AI endpoint may answer: a success status other than 200 as well
P23AiOutcomes == AiOutcomes \cup {HttpResponse(204, NotJson)}

\* the runtime invokes the P2.3 handler with an event
P23Invoke ==
    /\ pc \in {"idle", "done"}
    /\ \E ev \in P23Events : event' = ev
    /\ pc' = "read_message"
    /\ message_text' = Unset /\ api_key' = Unset /\ printed' = Unset
    /\ event_data' = Unset
    /\ response' = Unset /\ escaped' = Unset
    /\ calls' = <<>>
    /\ UNCHANGED <<has_simplejson, gemini_key, google_creds_json, calendar_id,
                   google_creds, raw_text, group_name, access_token,
                   calendar_response, prev, replays>>

\* lines 26-33
ReadMessage ==
    /\ pc = "read_message"
    /\ message_text' = read_message(event)
    /\ pc' = "load_api_key"
    /\ UNCHANGED <<has_simplejson, event, gemini_key, google_creds_json, calendar_id,
                   google_creds, raw_text, group_name, event_data, access_token,
                   calendar_response, response, escaped, calls, prev, replays,
                   api_key, printed>>

\* line 36: get_gemini_api_key(), outside every try block of the handler
LoadApiKey ==
    /\ pc = "load_api_key"
    /\ \E out \in StoreOutcomes(S3_GEMINI_KEY_FILE) :
         LET r == get_gemini_api_key(out) IN
         /\ calls' = Append(calls, [svc |-> "s3", req |-> JStr(S3_GEMINI_KEY_FILE),
                                    resp |-> out])
         /\ IF r.ok
            THEN /\ api_key' = r.val
                 /\ pc' = "call_gemini"
                 /\ UNCHANGED <<response, escaped>>
            ELSE /\ Finish(Throw(r))
                 /\ UNCHANGED api_key
    /\ UNCHANGED <<has_simplejson, event, gemini_key, google_creds_json, calendar_id,
                   google_creds, raw_text, group_name, event_data, access_token,
                   calendar_response, prev, replays, message_text, printed>>

\* lines 39-92: the AI call, what is logged, and the return
CallGemini ==
    /\ pc = "call_gemini"
    /\ \E out \in P23AiOutcomes :
         LET r == call_gemini(out, event_data) IN
         /\ calls' = Append(calls, [svc |-> "gemini",
                                    req |-> [text |-> message_text, key |-> api_key],
                                    resp |-> out])
         /\ printed' = r.printed
         /\ event_data' = r.event_data
    /\ Finish(Received(message_text))
    /\ UNCHANGED <<has_simplejson, event, gemini_key, google_creds_json, calendar_id,
                   google_creds, raw_text, group_name, access_token,
                   calendar_response, prev, replays, message_text, api_key>>

P23Next == P23Invoke \/ ReadMessage \/ LoadApiKey \/ CallGemini

P23Spec == Init /\ [][P23Next]_vars

(***************************************************************************)
(* What the properties speak of, read off the inbound event and the        *)
(* answers the services gave (the call log), not off the handler's locals  *)
(***************************************************************************)
Done == pc = "done"
Returned(statusCode) == Done /\ response # Unset /\ response.statusCode = statusCode

CallsTo(svc) == {i \in 1..Len(calls) : calls[i].svc = svc}
NoAiTokenCalendarCall ==
    CallsTo("gemini") = {} /\ CallsTo("token") = {} /\ CallsTo("calendar") = {}

\* the inbound payload: the event's body parsed as JSON
Payload ==
    LET body == Item(Ret(event), "body") IN
    IF body.ok /\ body.val.t = "text" THEN json_loads(body.val.cs)
    ELSE Raise("TypeError", "no body to parse")
PayloadIsObject == Payload.ok /\ Payload.val.t = "obj"
BotPayload ==
    PayloadIsObject /\ DictGet(Payload.val.d, "sender_type", JNull) = JStr("bot")
MalformedPayload == event # Unset /\ ~PayloadIsObject

\* a secret fetch that came back with content
SecretOk(out) == ~out.raises /\ Strip(out.content) # <<>>
SecretFailed == \E i \in CallsTo("s3") : ~SecretOk(calls[i].resp)
ThreeSecretsFetched ==
    /\ Len(calls) >= 3
    /\ \A i \in 1..3 : calls[i].svc = "s3" /\ SecretOk(calls[i].resp)
    /\ <<calls[1].req, calls[2].req, calls[3].req>> =
          <<JStr(S3_GEMINI_KEY_FILE), JStr(S3_GOOGLE_CREDS_FILE), JStr(S3_CALENDAR_ID_FILE)>>
CredsAreJson == ThreeSecretsFetched /\ json_loads(calls[2].resp.content).ok

\* the AI endpoint's answer: the text of the first candidate, if there is one
Answered(out) == out.raises = "none" /\ ~RaisesForStatus(out.status) /\ out.body # NotJson
TextOf(out) == FirstText(out.body)
HasText(out) == Answered(out) /\ TextOf(out).ok /\ TextOf(out).val.t = "text"
ValidJsonAnswer(out) == HasText(out) /\ json_loads(StripFence(TextOf(out).val.cs)).ok
ParsedAnswer(out) == json_loads(StripFence(TextOf(out).val.cs)).val
AiSaysEvent(out) ==
    /\ ValidJsonAnswer(out)
    /\ ParsedAnswer(out).t = "obj"
    /\ Truthy(DictGet(ParsedAnswer(out).d, "event_found", JNull))
AiSaysNoEvent(out) ==
    /\ ValidJsonAnswer(out)
    /\ ParsedAnswer(out).t = "obj"
    /\ DictGet(ParsedAnswer(out).d, "event_found", JNull) = JBool(FALSE)
\* timeout, transport error, non-success status, output that is not valid JSON
AiCallFailed(out) ==
    \/ out.raises # "none"
    \/ RaisesForStatus(out.status)
    \/ out.body = NotJson
    \/ HasText(out) /\ ~ValidJsonAnswer(out)

\* the token endpoint returned an access token
TokenOk(out) ==
    /\ out.raises = "none" /\ ~RaisesForStatus(out.status)
    /\ out.body.t = "obj"
    /\ Truthy(DictGet(out.body.d, "access_token", JNull))
TokenObtained == \E i \in CallsTo("token") : TokenOk(calls[i].resp)

\* the calendar endpoint created the event and said so
CalendarOk(out) ==
    out.raises = "none" /\ ~RaisesForStatus(out.status) /\ out.body.t = "obj"
CalendarSucceeded == \E i \in CallsTo("calendar") : CalendarOk(calls[i].resp)

\* the AI step reported event_found true; a required credential field is
\* missing after unwrapping; the token endpoint call failed
EventFoundTrue == \E i \in CallsTo("gemini") : AiSaysEvent(calls[i].resp)
MissingField ==
    /\ google_creds # Unset
    /\ TokenData(google_creds).ok
    /\ \E f \in {"client_id", "client_secret", "refresh_token"} :
          ~Truthy(TokenData(google_creds).val[f])
TokenCallFailed == \E i \in CallsTo("token") : ~TokenOk(calls[i].resp)

\* the answers of a call log, without the requests
AnswersOf(log) == [i \in 1..Len(log) |-> [svc |-> log[i].svc, resp |-> log[i].resp]]

\* the fixed order of the external calls
Pipeline == <<"s3", "s3", "s3", "gemini", "token", "calendar">>

IsEventCreated(resp) ==
    /\ resp.statusCode = 200
    /\ "json" \in DOMAIN resp.body
    /\ resp.body.json.t = "obj"
    /\ DictGet(resp.body.json.d, "status", JNull) = JStr("Event created.")

(***************************************************************************)
(* The claims                                                              *)
(***************************************************************************)

\* C1 (as stated): an invocation whose inbound payload has sender_type "bot"
\* makes no external call at all, no secret fetch included, and returns 200
\* whatever the secret store holds.
C1_BotTouchesNothing ==
    BotPayload => calls = <<>> /\ (Done => Returned(200))

\* C1 (amended): an invocation whose inbound payload has sender_type "bot"
\* makes no AI call, no token refresh and no calendar call; it does make the
\* three secret fetches first, and it returns the 200 "Ignored bot message"
\* response exactly when all three secrets have content and the OAuth
\* credential secret is valid JSON, and a 500 otherwise.
C1_BotShortCircuits ==
    BotPayload =>
        /\ NoAiTokenCalendarCall
        /\ Done =>
             /\ Len(calls) = 3
             /\ \A i \in 1..3 : calls[i].svc = "s3"
             /\ IF CredsAreJson THEN response = IGNORED_BOT.response ELSE Returned(500)

C1_Witness == Done /\ BotPayload /\ Returned(200) /\ Len(calls) = 3

\* C2: if any of the three secret fetches errors or returns empty content,
\* the handler returns 500 and makes no AI call, no token refresh and no
\* calendar call in that invocation.
C2_MissingSecretIsFatal ==
    SecretFailed => NoAiTokenCalendarCall /\ (Done => Returned(500))

C2_Witness ==
    /\ Done /\ Returned(500) /\ Len(calls) = 3
    /\ SecretOk(calls[1].resp) /\ SecretOk(calls[2].resp)
    /\ ~calls[3].resp.raises /\ calls[3].resp.content # <<>> /\ ~SecretOk(calls[3].resp)

\* C3 (as stated): once event_found is true and an access token was
\* obtained, the handler returns the 200 "Event created" response if and only
\* if calendar creation succeeded, and a 500 whenever create_google_event
\* failed, by validation or by the transport or the HTTP status.
C3_CreatedIffCalendarSucceeded ==
    (Done /\ TokenObtained) =>
        /\ response # Unset
        /\ IsEventCreated(response) <=> CalendarSucceeded
        /\ ~CalendarSucceeded => response.statusCode = 500

\* C4 (as stated): with all secrets present and a non-bot payload, whenever
\* the AI step yields no event, because the model answered event_found false
\* or because the AI call failed (timeout, transport error, non-success
\* status, output that is not valid JSON), the handler returns the 200 "No
\* event found" response and makes no token refresh and no calendar call.
C4_NoEventIsGraceful ==
    \A i \in CallsTo("gemini") :
        (AiCallFailed(calls[i].resp) \/ AiSaysNoEvent(calls[i].resp)) =>
            /\ CallsTo("token") = {} /\ CallsTo("calendar") = {}
            /\ Done => response = NO_EVENT_FOUND.response

\* C5: when the AI step reports event_found true and the token refresh
\* fails (a required field is missing after unwrapping "installed"/"web", or
\* the token endpoint call fails), the handler returns 500 and makes no
\* calendar POST; in the missing-field case no token POST is made either and
\* the body is the failed-to-refresh-access-token message.
C5_RefreshFailureIsFatal ==
    (EventFoundTrue /\ (MissingField \/ TokenCallFailed)) =>
        /\ CallsTo("calendar") = {}
        /\ Done => Returned(500)
        /\ (Done /\ MissingField) =>
              CallsTo("token") = {} /\ response = REFRESH_FAILED.response

C5_Witness ==
    /\ Done /\ EventFoundTrue /\ MissingField /\ Returned(500)
    /\ "web" \in DOMAIN google_creds.d

C7_MalformedPayloadNotFatal ==
    (Done /\ MalformedPayload /\ CredsAreJson) =>
        response # Unset /\ response.statusCode # 500

\* C8: the handler is deterministic in its inputs: invoked again with the
\* same inbound event, and given the same answers by the secret store, the AI
\* service, the token endpoint and the calendar service, it returns the same
\* response (status and body); nothing is carried from one invocation to the
\* next.
C8_Deterministic ==
    (Done /\ prev # NoPrev /\ AnswersOf(calls) = AnswersOf(prev.calls)) =>
        response = prev.response /\ escaped = prev.escaped

C8_Witness ==
    /\ Done /\ prev # NoPrev /\ replays = 1
    /\ Len(calls) = 6 /\ AnswersOf(calls) = AnswersOf(prev.calls)
    /\ calls[4].req.today # prev.calls[4].req.today
    /\ IsEventCreated(response)

\* C9: the external calls of an invocation follow the pipeline order and
\* none is repeated: the AI call happens at most once and only after all
\* three secret fetches returned content; the token POST at most once and
\* only after the AI step returned event_found true; the calendar POST at
\* most once and only after the token refresh returned an access token.
C9_PipelineOrder ==
    /\ Len(calls) <= Len(Pipeline)
    /\ \A i \in 1..Len(calls) : calls[i].svc = Pipeline[i]
    /\ Len(calls) >= 4 => ThreeSecretsFetched
    /\ Len(calls) >= 5 => AiSaysEvent(calls[4].resp)
    /\ Len(calls) >= 6 => TokenOk(calls[5].resp)

C9_Witness == Len(calls) = 6 /\ calls[6].svc = "calendar"

\* C10 (as stated): for every AI response whose text is valid JSON after
\* fence-stripping, whatever JSON value it is, the record the handler uses
\* matches the parsed JSON, and when event_found is absent (from an object, or
\* because the value is no object) the handler follows the no-event path:
\* the 200 "No event found" response, no token refresh, no calendar call.
C10_ValidJsonIsUsed ==
    \A i \in CallsTo("gemini") :
        (Done /\ ValidJsonAnswer(calls[i].resp)) =>
            LET v == ParsedAnswer(calls[i].resp) IN
            /\ event_data = IF v.t = "obj"
                            THEN JObj(DictSet(v.d, "group_context", group_name))
                            ELSE v
            /\ (v.t # "obj" \/ "event_found" \notin DOMAIN v.d) =>
                  /\ response = NO_EVENT_FOUND.response
                  /\ CallsTo("token") = {} /\ CallsTo("calendar") = {}


\* C11 (as stated): the P2.3 variant of lambda_handler always returns a
\* status-200 response, for every inbound event and every outcome of the
\* secret-store read and of the AI call (success, non-200 status, invalid
\* JSON, timeout or transport error): no invocation ends in anything else.
C11_P23AlwaysReturns200 ==
    Done => /\ escaped = Unset
            /\ response # Unset
            /\ response.statusCode = 200

=============================================================================
